---- MODULE Spec2Model ----
(***************************************************************************)
(* Exemplar-memory decision engine of PetBreed-ID: the correction path of  *)
(* src/ml/learn.py and the decision path of src/ml/predict.py, over the    *)
(* shared reference file.                                                  *)
(*                                                                         *)
(* Numbers.  The code computes in floating point; the model computes in    *)
(* fixed point, every quantity an integer number of its unit:              *)
(*   embedding coordinates   1.0                                           *)
(*   euclidean distances     0.001   (5.0 is 5000)                         *)
(*   cosine, combined score,                                               *)
(*   confidences             0.0001  (0.98 is 9800)                        *)
(*   0-100 scores            0.01    (92 is 9200, so confidence * 100 has  *)
(*                                    the same number as the confidence)   *)
(* Divisions round down to the unit.                                       *)
(***************************************************************************)
EXTENDS Integers, Sequences, FiniteSets, TLC

(***************************************************************************)
(* Configuration: src/ml/predict.py lines 25-42, src/ml/learn.py 13-14.    *)
(***************************************************************************)
EXACT_DUPLICATE_THRESHOLD == 5000
VERY_SIMILAR_THRESHOLD == 12000
WEAK_SIMILARITY_THRESHOLD == 30000
COSINE_EXACT_THRESHOLD == 9800
COSINE_VERY_SIMILAR_THRESHOLD == 9200
COSINE_WEAK_THRESHOLD == 7500
MODEL_VERY_HIGH_CONF == 9000
MIN_EXAMPLES_FOR_STATS == 3
DUPLICATE_THRESHOLD == 5000
LEARN_SIMILAR_THRESHOLD == 15000

\* BREED_SPECIFIC_THRESHOLDS: the breeds that have an entry.
BreedsWithThresholds ==
    {"Golden Retriever", "Labrador Retriever", "Chihuahua", "Pomeranian",
     "German Shepherd", "French Bulldog", "English Bulldog", "Yorkshire Terrier"}

\* BREED_SPECIFIC_THRESHOLDS[breed]; read only for the breeds above.
BREED_SPECIFIC_THRESHOLDS(breed) ==
    CASE breed = "Golden Retriever" ->
           [euclidean |-> 10000, cosine |-> 9400,
            similar_breeds |-> {"Labrador Retriever", "Flat-Coated Retriever"}]
      [] breed = "Labrador Retriever" ->
           [euclidean |-> 10000, cosine |-> 9400,
            similar_breeds |-> {"Golden Retriever", "Chesapeake Bay Retriever"}]
      [] breed = "Chihuahua" ->
           [euclidean |-> 8000, cosine |-> 9500,
            similar_breeds |-> {"Toy Fox Terrier", "Miniature Pinscher"}]
      [] breed = "Pomeranian" ->
           [euclidean |-> 9000, cosine |-> 9400,
            similar_breeds |-> {"Spitz", "Keeshond"}]
      [] breed = "German Shepherd" ->
           [euclidean |-> 10000, cosine |-> 9300,
            similar_breeds |-> {"Belgian Malinois", "Dutch Shepherd"}]
      [] breed = "French Bulldog" ->
           [euclidean |-> 9000, cosine |-> 9400,
            similar_breeds |-> {"Boston Terrier", "English Bulldog"}]
      [] breed = "English Bulldog" ->
           [euclidean |-> 9000, cosine |-> 9400,
            similar_breeds |-> {"French Bulldog", "American Bulldog"}]
      [] OTHER ->
           [euclidean |-> 8000, cosine |-> 9500,
            similar_breeds |-> {"Silky Terrier", "Australian Terrier"}]

(***************************************************************************)
(* Arithmetic helpers.                                                     *)
(***************************************************************************)
Min2(a, b) == IF a <= b THEN a ELSE b
Max2(a, b) == IF a >= b THEN a ELSE b
SetMin(S) == CHOOSE x \in S : \A y \in S : x <= y
SetMax(S) == CHOOSE x \in S : \A y \in S : x >= y

RECURSIVE SeqSum(_)
SeqSum(s) == IF s = <<>> THEN 0 ELSE Head(s) + SeqSum(Tail(s))

\* mean of a non-empty sequence of numbers (np.mean), rounded down
SeqMean(s) == SeqSum(s) \div Len(s)

\* Newton's iteration for the integer square root, from a guess x that is
\* not below the root
RECURSIVE SqrtIter(_, _)
SqrtIter(n, x) ==
    IF (x + n \div x) \div 2 >= x THEN x ELSE SqrtIter(n, (x + n \div x) \div 2)

\* the integer square root: the largest r with r*r <= n
ISqrt(n) ==
    IF n = 0 THEN 0
    ELSE IF n < 1000000 THEN SqrtIter(n, 1000)
    ELSE IF n < 100000000 THEN SqrtIter(n, 10000)
    ELSE SqrtIter(n, 46341)

(***************************************************************************)
(* Similarity metrics: predict.py 190-217.  numpy subtracts element by     *)
(* element, a one-element array being stretched to the other's length.     *)
(***************************************************************************)
At(v, i) == IF Len(v) = 1 THEN v[1] ELSE v[i]

\* the squared L2 norm of emb1 - emb2, in coordinate units
Dist2(emb1, emb2) ==
    SeqSum([i \in 1..Max2(Len(emb1), Len(emb2)) |->
               (At(emb1, i) - At(emb2, i)) * (At(emb1, i) - At(emb2, i))])

Dot(emb1, emb2) == SeqSum([i \in 1..Len(emb1) |-> emb1[i] * emb2[i]])

\* np.linalg.norm(emb1 - emb2), in 0.001
euclidean_distance(emb1, emb2) == ISqrt(Dist2(emb1, emb2) * 1000000)

\* dot_product / norm_product in 0.0001, 0 when the product of the norms is
\* 0.  The product of the norms is the root of the product of the squared
\* norms, taken to 0.01, or to 0.1 when the finer root does not fit the
\* integers.
CosineOf(dot_product, norm_product2) ==
    IF norm_product2 = 0 THEN 0
    ELSE IF norm_product2 < 200000
         THEN (dot_product * 1000000) \div ISqrt(norm_product2 * 10000)
         ELSE (dot_product * 100000) \div ISqrt(norm_product2 * 100)

cosine_similarity(emb1, emb2) ==
    CosineOf(Dot(emb1, emb2), Dot(emb1, emb1) * Dot(emb2, emb2))

\* lines 212-217: the three metrics of one pair
CombinedOf(euclidean_dist, cosine_sim) ==
    [euclidean_distance |-> euclidean_dist,
     cosine_similarity |-> cosine_sim,
     combined_score |-> ((100000000 \div (10000 + euclidean_dist)) * 4 + cosine_sim * 6) \div 10]

calculate_combined_similarity(emb1, emb2) ==
    CombinedOf(euclidean_distance(emb1, emb2), cosine_similarity(emb1, emb2))

(***************************************************************************)
(* Memory analysis: predict.py 223-290.                                    *)
(***************************************************************************)
get_breed_threshold(breed_name, metric) ==
    IF breed_name \in BreedsWithThresholds
    THEN IF metric = "euclidean" THEN BREED_SPECIFIC_THRESHOLDS(breed_name).euclidean
                                 ELSE BREED_SPECIFIC_THRESHOLDS(breed_name).cosine
    ELSE IF metric = "euclidean" THEN VERY_SIMILAR_THRESHOLD
                                 ELSE COSINE_VERY_SIMILAR_THRESHOLD

is_visually_similar_breed(breed1, breed2) ==
    \/ /\ breed1 \in BreedsWithThresholds
       /\ breed2 \in BREED_SPECIFIC_THRESHOLDS(breed1).similar_breeds
    \/ /\ breed2 \in BreedsWithThresholds
       /\ breed1 \in BREED_SPECIFIC_THRESHOLDS(breed2).similar_breeds

\* the labels of references in the order of their first appearance: the key
\* order of the breed_matches dictionary
RECURSIVE BreedOrder(_, _)
BreedOrder(references, seen) ==
    IF references = <<>> THEN <<>>
    ELSE IF Head(references).label \in seen
         THEN BreedOrder(Tail(references), seen)
         ELSE <<Head(references).label>>
              \o BreedOrder(Tail(references), seen \cup {Head(references).label})

\* the match info of every reference of a sequence
MatchInfos(current_emb, refs) ==
    [i \in 1..Len(refs) |-> calculate_combined_similarity(current_emb, refs[i].embedding)]

\* breed_matches[breed]: the match info of every reference of that label
BreedMatches(current_emb, references, breed) ==
    MatchInfos(current_emb, SelectSeq(references, LAMBDA ref : ref.label = breed))

\* np.std (population) of distances about their mean, in 0.001; the
\* deviations are squared in 0.01
StdDevAbout(dists, mean) ==
    10 * ISqrt(SeqSum([i \in 1..Len(dists) |->
                          ((dists[i] - mean) \div 10) * ((dists[i] - mean) \div 10)])
               \div Len(dists))

StdDev(dists) == StdDevAbout(dists, SeqMean(dists))

SeqRange(s) == {s[i] : i \in 1..Len(s)}

\* lines 273-288, from the three lists of one breed
StatsFromLists(breed, euclidean_dists, cosine_sims, combined_scores) ==
    [breed |-> breed,
     num_examples |-> Len(euclidean_dists),
     avg_euclidean |-> SeqMean(euclidean_dists),
     min_euclidean |-> SetMin(SeqRange(euclidean_dists)),
     std_euclidean |-> IF Len(euclidean_dists) > 1 THEN StdDev(euclidean_dists) ELSE 0,
     avg_cosine |-> SeqMean(cosine_sims),
     max_cosine |-> SetMax(SeqRange(cosine_sims)),
     avg_combined_score |-> SeqMean(combined_scores),
     max_combined_score |-> SetMax(SeqRange(combined_scores))]

BreedStatsOf(breed, matches) ==
    StatsFromLists(breed,
                   [i \in 1..Len(matches) |-> matches[i].euclidean_distance],
                   [i \in 1..Len(matches) |-> matches[i].cosine_similarity],
                   [i \in 1..Len(matches) |-> matches[i].combined_score])

\* breed_stats as the sequence of its values in key order
StatsInOrder(current_emb, references, order) ==
    [k \in 1..Len(order) |->
        BreedStatsOf(order[k], BreedMatches(current_emb, references, order[k]))]

analyze_memory_matches(current_emb, references) ==
    StatsInOrder(current_emb, references, BreedOrder(references, {}))

(***************************************************************************)
(* Confidence estimation: predict.py 292-365.                              *)
(***************************************************************************)
\* breed_stats.get(breed_name, {}): the entries of that breed (none or one)
StatsGet(breed_stats, breed_name) ==
    SelectSeq(breed_stats, LAMBDA st : st.breed = breed_name)

\* base_conf, lines 307-337
BaseConf(min_euclidean, max_cosine, max_combined) ==
    IF min_euclidean < EXACT_DUPLICATE_THRESHOLD
    THEN IF min_euclidean < 100 THEN 10000
         ELSE IF min_euclidean < 500 THEN 9950
         ELSE IF min_euclidean < 1000 THEN 9900
         ELSE IF min_euclidean < 2000 THEN 9850
         ELSE IF min_euclidean < 3500 THEN 9700
         ELSE 9600 - ((min_euclidean - 3500) * 100) \div 1500
    ELSE IF max_cosine > COSINE_EXACT_THRESHOLD THEN 9400
    ELSE IF max_combined > 9000 THEN 8800
    ELSE IF /\ min_euclidean < VERY_SIMILAR_THRESHOLD
            /\ max_cosine > COSINE_VERY_SIMILAR_THRESHOLD THEN 8200
    ELSE IF max_combined > 8000 THEN 7500
    ELSE 6500

\* example_boost, lines 339-351
ExampleBoost(base_conf, num_examples) ==
    IF base_conf < 9800
    THEN IF num_examples >= 5 THEN 800
         ELSE IF num_examples >= 3 THEN 500
         ELSE IF num_examples >= 2 THEN 300
         ELSE 0
    ELSE 0

\* variance_penalty, lines 353-362
VariancePenalty(num_examples, min_euclidean, std_euclidean) ==
    IF num_examples >= MIN_EXAMPLES_FOR_STATS /\ min_euclidean >= EXACT_DUPLICATE_THRESHOLD
    THEN IF std_euclidean > 5000 THEN -500
         ELSE IF std_euclidean > 3000 THEN -300
         ELSE 0
    ELSE 0

\* line 364 returned as it is, without the clamp of line 365
FinalConfUnclamped(base_conf, stats) ==
    base_conf + ExampleBoost(base_conf, stats.num_examples)
              + VariancePenalty(stats.num_examples, stats.min_euclidean,
                                stats.std_euclidean)

\* lines 364-365
FinalConf(base_conf, stats) ==
    Min2(10000, Max2(5500, base_conf
                           + ExampleBoost(base_conf, stats.num_examples)
                           + VariancePenalty(stats.num_examples, stats.min_euclidean,
                                             stats.std_euclidean)))

\* lines 301-365 for the statistics of one breed
ConfidenceOf(stats) ==
    FinalConf(BaseConf(stats.min_euclidean, stats.max_cosine, stats.max_combined_score),
              stats)

\* lines 297-299 and the rest
ConfidenceOfFound(found) == IF found = <<>> THEN 5000 ELSE ConfidenceOf(found[1])

calculate_memory_confidence(breed_stats, breed_name) ==
    ConfidenceOfFound(StatsGet(breed_stats, breed_name))

(***************************************************************************)
(* Decision logic: predict.py 371-534.                                     *)
(***************************************************************************)
\* memory_score before the boost, lines 410-437, in 0.01
RawScore(min_euclidean, max_cosine, max_combined, breed_threshold_euc, breed_threshold_cos) ==
    IF min_euclidean < EXACT_DUPLICATE_THRESHOLD
    THEN IF min_euclidean < 100 THEN 10000
         ELSE IF min_euclidean < 500 THEN 9950
         ELSE IF min_euclidean < 1000 THEN 9900
         ELSE IF min_euclidean < 2000 THEN 9850
         ELSE IF min_euclidean < 3500 THEN 9800
         ELSE 9700
    ELSE IF max_cosine > COSINE_EXACT_THRESHOLD THEN 9600
    ELSE IF min_euclidean < breed_threshold_euc
         THEN 9000 - (min_euclidean * 1500) \div breed_threshold_euc
    ELSE IF max_cosine > breed_threshold_cos
         THEN (8500 * (max_cosine - COSINE_WEAK_THRESHOLD))
                \div (breed_threshold_cos - COSINE_WEAK_THRESHOLD)
    ELSE IF max_combined > 8000
         THEN 7500 + ((max_combined - 8000) * 50) \div 100
    ELSE 6000 + ((max_combined - 7000) * 50) \div 100

\* lines 439-443
BoostedScore(raw, num_examples) ==
    Min2(10000, IF num_examples >= 3 /\ raw < 9900 THEN raw + 500 ELSE raw)

MemoryScore(stats) ==
    BoostedScore(RawScore(stats.min_euclidean, stats.max_cosine, stats.max_combined_score,
                          get_breed_threshold(stats.breed, "euclidean"),
                          get_breed_threshold(stats.breed, "cosine")),
                 stats.num_examples)

\* the test of line 404 with the comparison of the cosine the other way round
ReasonablySimilarCosineFlipped(stats) ==
    ~(/\ stats.min_euclidean > WEAK_SIMILARITY_THRESHOLD
      /\ stats.max_cosine > COSINE_WEAK_THRESHOLD)

\* lines 403-405: the breed is considered
ReasonablySimilar(stats) ==
    ~(/\ stats.min_euclidean > WEAK_SIMILARITY_THRESHOLD
      /\ stats.max_cosine < COSINE_WEAK_THRESHOLD)

\* lines 445-450 for the breeds kept
CandidatesOf(breed_stats, kept) ==
    [k \in 1..Len(kept) |->
        [breed |-> kept[k].breed,
         score |-> MemoryScore(kept[k]),
         confidence |-> calculate_memory_confidence(breed_stats, kept[k].breed),
         stats |-> kept[k]]]

\* memory_candidates before the sort, lines 392-459: the breeds that pass the
\* weak-similarity test, in the key order of breed_stats
MemoryCandidates(breed_stats) ==
    CandidatesOf(breed_stats, SelectSeq(breed_stats, ReasonablySimilar))

\* the first position of a score among the candidates
FirstWithScore(memory_candidates, top) ==
    SetMin({k \in 1..Len(memory_candidates) : memory_candidates[k].score = top})

\* memory_candidates[0] after the stable sort by score, highest first
\* (line 462): the first of the candidates with the highest score
BestMemory(memory_candidates) ==
    memory_candidates[FirstWithScore(memory_candidates,
        SetMax({memory_candidates[k].score : k \in 1..Len(memory_candidates)}))]

\* what a decision returns: final breed, final confidence, and of decision_info
\* the keys decision, memory_used and agreement ("unset" when the key is absent)
Decision(breed, conf, decision, memory_used, agreement) ==
    [breed |-> breed, conf |-> conf, decision |-> decision,
     memory_used |-> memory_used, agreement |-> agreement]

\* lines 494-500 with the two margins the other way round
MarginSwapped(model_breed, best_memory_breed) ==
    IF is_visually_similar_breed(model_breed, best_memory_breed) THEN 1500 ELSE 2000

\* lines 494-500
MarginRequired(model_breed, best_memory_breed) ==
    IF is_visually_similar_breed(model_breed, best_memory_breed) THEN 2000 ELSE 1500

\* lines 484-491 with the boost 0.05 whatever the score
AgreementFlatBoost(model_breed, model_conf, best_memory) ==
    Decision(model_breed, Min2(9800, Max2(model_conf, best_memory.confidence) + 500),
             "agreement_confidence_boost", TRUE, "true")

\* lines 484-491: model and memory agree
AgreementDecision(model_breed, model_conf, best_memory) ==
    Decision(model_breed,
             Min2(9800, Max2(model_conf, best_memory.confidence)
                        + (IF best_memory.score > 8500 THEN 800 ELSE 500)),
             "agreement_confidence_boost", TRUE, "true")

\* line 503 with the score compared to 85
ModelOverridesBelow85(model_conf, best_memory_score) ==
    model_conf > MODEL_VERY_HIGH_CONF /\ best_memory_score < 8500

\* line 503: the model is very confident and the memory not extremely strong
ModelOverrides(model_conf, best_memory_score) ==
    model_conf > MODEL_VERY_HIGH_CONF /\ best_memory_score < 9200

\* lines 525-534 with >= for > in line 525
CloseScoresMemoryOnTie(model_breed, model_conf, best_memory) ==
    IF best_memory.confidence >= model_conf
    THEN Decision(best_memory.breed, best_memory.confidence, "memory_higher_confidence",
                  TRUE, "false")
    ELSE Decision(model_breed, model_conf, "model_higher_confidence", FALSE, "false")

\* lines 525-534: scores close, the highest confidence wins
CloseScoresDecision(model_breed, model_conf, best_memory) ==
    IF best_memory.confidence > model_conf
    THEN Decision(best_memory.breed, best_memory.confidence, "memory_higher_confidence",
                  TRUE, "false")
    ELSE Decision(model_breed, model_conf, "model_higher_confidence", FALSE, "false")

\* lines 471-534, model_score being model_conf * 100
DecideWithBest(model_breed, model_conf, best_memory) ==
    IF best_memory.stats.min_euclidean < EXACT_DUPLICATE_THRESHOLD
    THEN Decision(best_memory.breed, best_memory.confidence, "memory_exact_duplicate",
                  TRUE, IF model_breed = best_memory.breed THEN "true" ELSE "false")
    ELSE IF model_breed = best_memory.breed
    THEN AgreementDecision(model_breed, model_conf, best_memory)
    ELSE IF ModelOverrides(model_conf, best_memory.score)
    THEN Decision(model_breed, model_conf, "model_very_high_confidence_override",
                  FALSE, "false")
    ELSE IF best_memory.score > model_conf + MarginRequired(model_breed, best_memory.breed)
    THEN Decision(best_memory.breed, best_memory.confidence, "memory_score_advantage",
                  TRUE, "false")
    ELSE IF model_conf > best_memory.score + MarginRequired(model_breed, best_memory.breed)
    THEN Decision(model_breed, model_conf, "model_score_advantage", FALSE, "false")
    ELSE CloseScoresDecision(model_breed, model_conf, best_memory)

\* lines 464-471
DecideAmong(model_breed, model_conf, memory_candidates) ==
    IF memory_candidates = <<>>
    THEN Decision(model_breed, model_conf, "no_memory_matches", FALSE, "unset")
    ELSE DecideWithBest(model_breed, model_conf, BestMemory(memory_candidates))

make_weighted_decision(model_breed, model_conf, breed_stats) ==
    DecideAmong(model_breed, model_conf, MemoryCandidates(breed_stats))

(***************************************************************************)
(* The reference file.  kind says what a reader finds:                     *)
(*   "absent"    no file                                                   *)
(*   "list"      a JSON list of exemplar records, data                     *)
(*   "partial"   opened for writing (truncated) and not yet completely     *)
(*               written by process by: json.load raises                   *)
(*   "garbage"   text that is not JSON: json.load raises                   *)
(*   "falsy"     JSON that is not a list and is falsy ({} or null)         *)
(*   "nonlist"   JSON that is not a list and is truthy ({"a": 1})          *)
(*   "badrecs"   a JSON list whose elements are not exemplar records ([1]) *)
(* An exemplar record is [label, embedding, added_at, updated_at], with    *)
(* updated_at = 0 for a record without that key.  source_image, the name   *)
(* of the image the embedding was computed from, is not modelled.          *)
(* json.dump followed by json.load gives back the same strings and floats. *)
(***************************************************************************)
FileOf(kind, data, by) == [kind |-> kind, data |-> data, by |-> by]

Unparseable(f) == f.kind \in {"partial", "garbage"}

(***************************************************************************)
(* The correction path: learn.py 37-74 and 113-152.                        *)
(***************************************************************************)
\* the loop of lines 54-59 were it to stop at the first reference within the
\* duplicate threshold, as the loop of lines 124-130 does
RECURSIVE FirstWithinScan(_, _, _, _)
FirstWithinScan(current_emb, references, i, best) ==
    IF i > Len(references) THEN best
    ELSE IF best.found /\ best.closest_distance < DUPLICATE_THRESHOLD THEN best
    ELSE IF \/ ~best.found
            \/ euclidean_distance(current_emb, references[i].embedding)
                  < best.closest_distance
         THEN FirstWithinScan(current_emb, references, i + 1,
                  [found |-> TRUE,
                   closest_distance |->
                       euclidean_distance(current_emb, references[i].embedding),
                   closest_label |-> references[i].label])
         ELSE FirstWithinScan(current_emb, references, i + 1, best)

\* lines 51-59: the running (closest_distance, closest_label) of the loop
RECURSIVE ClosestScan(_, _, _, _)
ClosestScan(current_emb, references, i, best) ==
    IF i > Len(references) THEN best
    ELSE IF \/ ~best.found
            \/ euclidean_distance(current_emb, references[i].embedding)
                  < best.closest_distance
         THEN ClosestScan(current_emb, references, i + 1,
                  [found |-> TRUE,
                   closest_distance |->
                       euclidean_distance(current_emb, references[i].embedding),
                   closest_label |-> references[i].label])
         ELSE ClosestScan(current_emb, references, i + 1, best)

\* what check_for_duplicates returns: the action and the message, or
\* raises = TRUE when an exception leaves the function
Answer(raises, action, message) ==
    [raises |-> raises, action |-> action, message |-> message]

\* lines 61-74 with a duplicate cutoff of 3.0 in place of DUPLICATE_THRESHOLD
DuplicateAnswerWithin3(closest_distance, closest_label, correct_label) ==
    IF closest_distance < 3000
    THEN IF closest_label = correct_label
         THEN Answer(FALSE, "skip", "Duplicate detected.")
         ELSE Answer(FALSE, "update", "Updating label")
    ELSE IF closest_distance < LEARN_SIMILAR_THRESHOLD
         THEN Answer(FALSE, "add", "Adding variation")
    ELSE Answer(FALSE, "add", "New unique reference.")

\* lines 61-74
DuplicateAnswer(closest_distance, closest_label, correct_label) ==
    IF closest_distance < DUPLICATE_THRESHOLD
    THEN IF closest_label = correct_label
         THEN Answer(FALSE, "skip", "Duplicate detected.")
         ELSE Answer(FALSE, "update", "Updating label")
    ELSE IF closest_distance < LEARN_SIMILAR_THRESHOLD
         THEN Answer(FALSE, "add", "Adding variation")
    ELSE Answer(FALSE, "add", "New unique reference.")

\* lines 50-74 for the closest reference found
AnswerForClosest(closest, correct_label) ==
    DuplicateAnswer(closest.closest_distance, closest.closest_label, correct_label)

\* line 56: numpy subtracts two one-dimensional arrays when they have the
\* same length or one of them has length 1, and raises ValueError otherwise
Broadcastable(emb1, emb2) ==
    Len(emb1) = Len(emb2) \/ Len(emb1) = 1 \/ Len(emb2) = 1

\* the loop of lines 54-59 runs to its end without raising
ShapesAgree(current_emb, references) ==
    \A i \in 1..Len(references) : Broadcastable(current_emb, references[i].embedding)

\* check_for_duplicates on the file as it is read
check_for_duplicates(embedding_array, ref_file, correct_label) ==
    IF ref_file.kind = "absent" THEN Answer(FALSE, "add", "New reference file")
    ELSE IF Unparseable(ref_file) THEN Answer(FALSE, "add", "New reference file")
    ELSE IF ref_file.kind = "falsy" \/ (ref_file.kind = "list" /\ ref_file.data = <<>>)
         THEN Answer(FALSE, "add", "First reference")
    ELSE IF ref_file.kind \in {"nonlist", "badrecs"} THEN Answer(TRUE, "none", "none")
    ELSE IF ~ShapesAgree(embedding_array, ref_file.data) THEN Answer(TRUE, "none", "none")
    ELSE AnswerForClosest(ClosestScan(embedding_array, ref_file.data, 1,
                                      [found |-> FALSE, closest_distance |-> 0,
                                       closest_label |-> "None"]),
                          correct_label)

\* lines 124-130: the index of the first record within the duplicate
\* threshold, 0 when the loop ends without one
FirstOrNone(within) == IF within = {} THEN 0 ELSE SetMin(within)

UpdateIndex(embedding_array, data) ==
    FirstOrNone({i \in 1..Len(data) :
                    euclidean_distance(embedding_array, data[i].embedding)
                       < DUPLICATE_THRESHOLD})

\* what main is about to do after lines 115-130 and 138-143: the status to
\* report and, when there is something to write, the content to dump.
\* status "exception" is the {"error": ...} output of line 151;
\* "update_failed" is the status "error" of line 136.
Plan(status, write, kind, data) ==
    [status |-> status, write |-> write, kind |-> kind, data |-> data]

\* lines 123-136 for the record found
UpdatePlan(data, i, correct_label, now) ==
    IF i = 0 THEN Plan("update_failed", FALSE, "list", <<>>)
    ELSE Plan("updated", TRUE, "list",
              [data EXCEPT ![i].label = correct_label, ![i].updated_at = now])

\* lines 115-118: data as main loads it from a file json.load accepts
MainData(ref_file) == IF ref_file.kind = "absent" THEN <<>> ELSE ref_file.data

\* lines 120-146 on the data of a file json.load accepted
MainPlanLoaded(action, ref_file, embedding_array, correct_label, now) ==
    IF action = "skip" THEN Plan("skipped", FALSE, "list", <<>>)
    ELSE IF action = "update"
    THEN IF ref_file.kind \in {"nonlist", "badrecs"}
         THEN Plan("exception", FALSE, "list", <<>>)
         ELSE UpdatePlan(MainData(ref_file),
                         UpdateIndex(embedding_array, MainData(ref_file)),
                         correct_label, now)
    ELSE IF ref_file.kind \in {"falsy", "nonlist"}
    THEN Plan("exception", FALSE, "list", <<>>)
    ELSE Plan("added", TRUE, IF ref_file.kind = "badrecs" THEN "badrecs" ELSE "list",
              Append(MainData(ref_file),
                     [label |-> correct_label, embedding |-> embedding_array,
                      added_at |-> now, updated_at |-> 0]))

\* main were it to guard its json.load as check_for_duplicates does, and go
\* on with data = [] when the file does not parse
MainPlanHealing(action, ref_file, embedding_array, correct_label, now) ==
    MainPlanLoaded(action,
                   IF Unparseable(ref_file) THEN FileOf("list", <<>>, "none")
                                            ELSE ref_file,
                   embedding_array, correct_label, now)

\* main were it to open the file without the os.path.exists test of line
\* 116: open raises when there is no file
MainPlanNoExistsTest(action, ref_file, embedding_array, correct_label, now) ==
    IF Unparseable(ref_file) \/ ref_file.kind = "absent"
    THEN Plan("exception", FALSE, "list", <<>>)
    ELSE MainPlanLoaded(action, ref_file, embedding_array, correct_label, now)

\* lines 115-146: json.load of line 118 raises on a file that does not parse
MainPlan(action, ref_file, embedding_array, correct_label, now) ==
    IF Unparseable(ref_file) THEN Plan("exception", FALSE, "list", <<>>)
    ELSE MainPlanLoaded(action, ref_file, embedding_array, correct_label, now)

(***************************************************************************)
(* The decision path: predict.py 536-614 and 659-711.                      *)
(***************************************************************************)
\* the keys of memory_info the properties read; a key the code leaves out of the
\* dictionary is "unset" (size 0)
MemoryInfo(available, used, size, decision, agreement, error, breed, conf) ==
    [memory_available |-> available, memory_used |-> used, memory_size |-> size,
     decision |-> decision, agreement |-> agreement, error |-> error,
     final_breed |-> breed, final_confidence |-> conf]

\* (memory_match, memory_info); memory_match "None" is Python's None
MemoryAnswer(match, info) == [memory_match |-> match, memory_info |-> info]

\* lines 579-607 for the decision d over memory_size references
AnswerForDecision(d, memory_size) ==
    MemoryAnswer(IF d.memory_used THEN d.breed ELSE "None",
                 MemoryInfo(TRUE, d.memory_used, memory_size, d.decision,
                            d.agreement, FALSE, d.breed, d.conf))

check_memory(embedding, ref_file, model_breed, model_conf) ==
    IF ref_file.kind = "absent"
    THEN MemoryAnswer("None", MemoryInfo(FALSE, FALSE, 0, "no_memory_file", "unset",
                                         FALSE, "unset", 0))
    ELSE IF Unparseable(ref_file) \/ ref_file.kind \in {"nonlist", "badrecs"}
    THEN MemoryAnswer("None", MemoryInfo(FALSE, FALSE, 0, "unset", "unset", TRUE,
                                         "unset", 0))
    ELSE IF ref_file.data = <<>>
    THEN MemoryAnswer("None", MemoryInfo(TRUE, FALSE, 0, "empty_memory", "unset",
                                         FALSE, "unset", 0))
    ELSE AnswerForDecision(
             make_weighted_decision(model_breed, model_conf,
                                    analyze_memory_matches(embedding, ref_file.data)),
             Len(ref_file.data))

\* lines 664-711: the results object from what check_memory returned;
\* `if memory_match:` is false for None and for the empty string
ResultsOf(m, is_match, model_breed_name, model_confidence) ==
    [outcome |-> "result",
     is_memory_match |-> is_match,
     breed |-> IF is_match THEN m.memory_match ELSE model_breed_name,
     confidence |-> IF is_match THEN m.memory_info.final_confidence
                                ELSE model_confidence,
     memory_info |-> m.memory_info]

ResultsFor(m, model_breed_name, model_confidence) ==
    ResultsOf(m, m.memory_match \notin {"None", ""}, model_breed_name, model_confidence)

\* what main prints for a query: outcome "result" is the results object of
\* line 713, the only output the store can lead to (check_memory catches
\* every exception of its own)
PredictMain(embedding, ref_file, model_breed_name, model_confidence) ==
    ResultsFor(check_memory(embedding, ref_file, model_breed_name, model_confidence),
               model_breed_name, model_confidence)

(***************************************************************************)
(* The state.                                                              *)
(*   file   the reference file                                             *)
(*   clock  datetime.now(): the number of the next write                   *)
(*   last   the last request served as a whole and what it returned        *)
(*   pc, req, ans, plan, res                                               *)
(*          the correction processes that run concurrently: where each is  *)
(*          in learn.py's main, its request, what check_for_duplicates     *)
(*          answered, what it is about to write, and the status it printed *)
(***************************************************************************)
VARIABLES file, clock, last, started, pc, req, ans, plan, res

vars == <<file, clock, last, started, pc, req, ans, plan, res>>

\* the largest value of clock: one more than the number of writes of a run
MaxClock == 4
\* the number of correction requests the concurrent processes start in a run
MaxRequests == 2

\* the embeddings the classifier produces for the images of a run
Embs == {<<6, 0>>, <<9, 0>>, <<10, 0>>, <<12, 0>>, <<16, 4>>}
\* the classifier's top label, and the labels users correct to
Labels == {"Golden Retriever", "Labrador Retriever", "Beagle"}
LearnLabels == {"Labrador Retriever", "Beagle"}
\* the classifier's top confidence: 0.40, 0.93
Confs == {4000, 9300}

\* the inputs of the concurrent processes
ConcEmbs == {<<6, 0>>, <<10, 0>>, <<12, 0>>}
ConcLabels == {"Labrador Retriever", "Beagle"}
Procs == {"w1", "w2"}

\* the files a run can start from: no file, an empty store, a file a
\* crashed writer left truncated, and the corrupt contents
InitFiles ==
    {FileOf("absent", <<>>, "none"), FileOf("list", <<>>, "none"),
     FileOf("partial", <<>>, "none"), FileOf("garbage", <<>>, "none"),
     FileOf("falsy", <<>>, "none"),
     FileOf("nonlist", <<>>, "none"), FileOf("badrecs", <<>>, "none")}

NoRequest == [embedding |-> <<>>, label |-> "none"]
NoAnswer == Answer(FALSE, "none", "none")
NoPlan == Plan("none", FALSE, "list", <<>>)

Init ==
    /\ file \in InitFiles
    /\ clock = 1
    /\ last = [op |-> "none", embedding |-> <<>>, label |-> "none", conf |-> 0,
               before |-> file, status |-> "none", out |-> NoAnswer]
    /\ started = 0
    /\ pc = [p \in Procs |-> "idle"]
    /\ req = [p \in Procs |-> NoRequest]
    /\ ans = [p \in Procs |-> NoAnswer]
    /\ plan = [p \in Procs |-> NoPlan]
    /\ res = [p \in Procs |-> "none"]

(***************************************************************************)
(* Requests served one at a time.                                          *)
(***************************************************************************)
\* learn.py main, lines 113-152, for one image and label, nothing else
\* touching the file meanwhile and the write succeeding
PlanForAnswer(answer, ref_file, embedding, correct_label, now) ==
    IF answer.raises THEN Plan("exception", FALSE, "list", <<>>)
    ELSE MainPlan(answer.action, ref_file, embedding, correct_label, now)

LearnPlan(ref_file, embedding, correct_label, now) ==
    PlanForAnswer(check_for_duplicates(embedding, ref_file, correct_label),
                  ref_file, embedding, correct_label, now)

LearnWith(p, embedding, correct_label) ==
    /\ p.write => clock < MaxClock
    /\ file' = IF p.write THEN FileOf(p.kind, p.data, "none") ELSE file
    /\ clock' = IF p.write THEN clock + 1 ELSE clock
    /\ last' = [op |-> "learn", embedding |-> embedding, label |-> correct_label,
                conf |-> 0, before |-> file, status |-> p.status, out |-> NoAnswer]
    /\ UNCHANGED <<started, pc, req, ans, plan, res>>

Learn(embedding, correct_label) ==
    LearnWith(LearnPlan(file, embedding, correct_label, clock), embedding, correct_label)

\* predict.py main, lines 659-713, for one image: embedding and classifier
\* output are the classifier's, the file is read once
Predict(embedding, model_breed, model_conf) ==
    /\ last' = [op |-> "predict", embedding |-> embedding, label |-> model_breed,
                conf |-> model_conf, before |-> file, status |-> "result",
                out |-> PredictMain(embedding, file, model_breed, model_conf)]
    /\ UNCHANGED <<file, clock, started, pc, req, ans, plan, res>>

Next ==
    \/ \E e \in Embs, l \in LearnLabels : Learn(e, l)
    \/ \E e \in Embs, l \in Labels, c \in Confs : Predict(e, l, c)

Spec == Init /\ [][Next]_vars

(***************************************************************************)
(* Correction requests running concurrently with each other and with       *)
(* decision requests: the steps of learn.py's main at which it touches the *)
(* file.                                                                   *)
(***************************************************************************)
Running == {p \in Procs : pc[p] \notin {"idle", "done"}}

\* a request arrives: lines 76-111
WStart(p, embedding, correct_label) ==
    /\ pc[p] \in {"idle", "done"}
    /\ started < MaxRequests
    /\ started' = started + 1
    /\ pc' = [pc EXCEPT ![p] = "check"]
    /\ req' = [req EXCEPT ![p] = [embedding |-> embedding, label |-> correct_label]]
    /\ ans' = [ans EXCEPT ![p] = NoAnswer]
    /\ plan' = [plan EXCEPT ![p] = NoPlan]
    /\ res' = [res EXCEPT ![p] = "none"]
    /\ UNCHANGED <<file, clock, last>>

\* line 113: check_for_duplicates reads the file
WCheckWith(p, answer) ==
    /\ ans' = [ans EXCEPT ![p] = IF answer.raises THEN NoAnswer ELSE answer]
    /\ pc' = [pc EXCEPT ![p] = IF answer.raises THEN "done" ELSE "main"]
    /\ res' = [res EXCEPT ![p] = IF answer.raises THEN "exception" ELSE "none"]
    /\ UNCHANGED <<file, clock, last, started, req, plan>>

WCheck(p) ==
    /\ pc[p] = "check"
    /\ WCheckWith(p, check_for_duplicates(req[p].embedding, file, req[p].label))

\* lines 115-130 and 138-143: main reads the file again and prepares data
WMainWith(p, q) ==
    /\ plan' = [plan EXCEPT ![p] = IF q.write THEN q ELSE NoPlan]
    /\ ans' = [ans EXCEPT ![p] = NoAnswer]
    /\ pc' = [pc EXCEPT ![p] = IF q.write THEN "open" ELSE "done"]
    /\ res' = [res EXCEPT ![p] = IF q.write THEN "none" ELSE q.status]
    /\ clock' = IF q.write THEN clock + 1 ELSE clock
    /\ UNCHANGED <<file, last, started, req>>

WMain(p) ==
    /\ pc[p] = "main"
    /\ WMainWith(p, MainPlan(ans[p].action, file, req[p].embedding, req[p].label, clock))

\* lines 132 and 144: open(ref_file, 'w') truncates the file
WOpen(p) ==
    /\ pc[p] = "open"
    /\ file' = FileOf("partial", <<>>, p)
    /\ pc' = [pc EXCEPT ![p] = "dump"]
    /\ UNCHANGED <<clock, last, started, req, ans, plan, res>>

\* open raises (the file cannot be opened for writing): line 150
WOpenFail(p) ==
    /\ pc[p] = "open"
    /\ pc' = [pc EXCEPT ![p] = "done"]
    /\ res' = [res EXCEPT ![p] = "exception"]
    /\ plan' = [plan EXCEPT ![p] = NoPlan]
    /\ UNCHANGED <<file, clock, last, started, req, ans>>

\* lines 133 and 145: json.dump and the close write the text.  When another
\* process opened or wrote the file after this one opened it, the two texts
\* overlay each other: this one's text stands, or the result is not JSON.
WDump(p, torn) ==
    /\ pc[p] = "dump"
    /\ torn => ~(file.kind = "partial" /\ file.by = p)
    /\ file' = IF torn THEN FileOf("garbage", <<>>, "none")
                       ELSE FileOf(plan[p].kind, plan[p].data, "none")
    /\ pc' = [pc EXCEPT ![p] = "done"]
    /\ res' = [res EXCEPT ![p] = plan[p].status]
    /\ plan' = [plan EXCEPT ![p] = NoPlan]
    /\ UNCHANGED <<clock, last, started, req, ans>>

\* the write raises part way (disk full, I/O error): the file keeps what
\* was written so far, line 150 reports the error
WDumpFail(p) ==
    /\ pc[p] = "dump"
    /\ file' = IF file.kind = "partial" /\ file.by = p THEN file
               ELSE FileOf("garbage", <<>>, "none")
    /\ pc' = [pc EXCEPT ![p] = "done"]
    /\ res' = [res EXCEPT ![p] = "exception"]
    /\ plan' = [plan EXCEPT ![p] = NoPlan]
    /\ UNCHANGED <<clock, last, started, req, ans>>

ConcNext ==
    \/ \E p \in Procs, e \in ConcEmbs, l \in ConcLabels : WStart(p, e, l)
    \/ \E p \in Procs : WCheck(p)
    \/ \E p \in Procs : WMain(p)
    \/ \E p \in Procs : WOpen(p)
    \/ \E p \in Procs : WOpenFail(p)
    \/ \E p \in Procs, torn \in BOOLEAN : WDump(p, torn)
    \/ \E p \in Procs : WDumpFail(p)
    \/ \E e \in ConcEmbs, l \in ConcLabels : Predict(e, l, 4000)

ConcSpec == Init /\ [][ConcNext]_vars
(***************************************************************************)
(* Properties of the decision path.                                        *)
(***************************************************************************)
\* the positions of the exemplars within the exact-duplicate cutoff of a
\* query embedding
DuplicatesOf(embedding, data) ==
    {i \in 1..Len(data) :
        euclidean_distance(embedding, data[i].embedding) < EXACT_DUPLICATE_THRESHOLD}

\* C1: whenever some exemplar of the store is at Euclidean distance below the
\* exact-duplicate cutoff from the query, the decision's rationale is
\* memory_exact_duplicate and its final label is the label of an exemplar
\* within the cutoff, whatever the classifier says and whatever else is in
\* the store.  (Where exemplars of two labels lie within the cutoff the
\* final label may be either.)
C1_ExactDuplicateAlwaysWins ==
    (/\ last.op = "predict"
     /\ last.before.kind = "list"
     /\ DuplicatesOf(last.embedding, last.before.data) # {})
    => /\ last.out.memory_info.decision = "memory_exact_duplicate"
       /\ \E i \in DuplicatesOf(last.embedding, last.before.data) :
              last.out.breed = last.before.data[i].label

(***************************************************************************)
(* Properties of the correction path.                                      *)
(***************************************************************************)
\* the distances from an embedding to the exemplars of a store
DistancesTo(embedding, data) ==
    {euclidean_distance(embedding, data[i].embedding) : i \in 1..Len(data)}

\* the positions of the exemplars closest to an embedding; more than one
\* when exemplars are equally close
ClosestOf(embedding, data) ==
    {i \in 1..Len(data) :
        euclidean_distance(embedding, data[i].embedding)
           = SetMin(DistancesTo(embedding, data))}

\* the last request was a correction served on a store of exemplars, within
\* the exact-duplicate cutoff of one of them
CorrectionNearExemplar ==
    /\ last.op = "learn"
    /\ last.before.kind = "list"
    /\ last.before.data # <<>>
    /\ SetMin(DistancesTo(last.embedding, last.before.data)) < DUPLICATE_THRESHOLD

\* C2: a correction within the exact-duplicate cutoff of an exemplar, with a
\* label other than the closest exemplar's, is answered 'updated', and the
\* decision request that follows it with the same embedding returns the
\* corrected label with rationale memory_exact_duplicate.
C2_UpdateThenQueryReturnsCorrection ==
    [][(/\ CorrectionNearExemplar
        /\ \A i \in ClosestOf(last.embedding, last.before.data) :
               last.before.data[i].label # last.label
        /\ last'.op = "predict"
        /\ last'.embedding = last.embedding)
       => /\ last.status = "updated"
          /\ last'.out.breed = last.label
          /\ last'.out.memory_info.decision = "memory_exact_duplicate"]_vars

\* C3: the same (embedding, label) submitted a second time, right after a
\* correction that was answered, is answered 'skipped' and writes nothing,
\* so that the store keeps the size and contents the first call left.
C3_CorrectionIdempotent ==
    last.op = "learn" /\ last.status \in {"skipped", "updated", "added"}
    => /\ LearnPlan(file, last.embedding, last.label, clock).status = "skipped"
       /\ ~LearnPlan(file, last.embedding, last.label, clock).write

\* the positions at which a correction changed the store it was served on
ChangedByLast ==
    {i \in 1..Len(last.before.data) : file.data[i] # last.before.data[i]}

\* C4: a correction answered 'updated' changes the label and updated_at of
\* one exemplar, the one closest to the new embedding, and leaves the others
\* as they were, also when several exemplars lie within the cutoff.
C4_UpdateChangesTheClosest ==
    last.op = "learn" /\ last.status = "updated"
    => /\ Len(file.data) = Len(last.before.data)
       /\ Cardinality(ChangedByLast) = 1
       /\ ChangedByLast \subseteq ClosestOf(last.embedding, last.before.data)
       /\ \A i \in ChangedByLast :
              /\ file.data[i].label = last.label
              /\ file.data[i].updated_at # last.before.data[i].updated_at

\* C5: on a store of exemplars, or none, the outcome of a correction is
\* determined by the closest exemplar: 'skipped' when it is within the
\* exact-duplicate cutoff and has the corrected label, 'updated' when it is
\* within the cutoff and has another label, 'added' in every other case: at
\* or beyond the cutoff, and for an empty or absent store.  (Of exemplars
\* equally close, either may be the one compared.)
C5_OutcomeByClosest ==
    last.op = "learn" /\ last.before.kind \in {"absent", "list"}
    => /\ last.status \in {"skipped", "updated", "added"}
       /\ last.status = "added" <=> ~CorrectionNearExemplar
       /\ last.status = "skipped"
             => \E i \in ClosestOf(last.embedding, last.before.data) :
                    last.before.data[i].label = last.label
       /\ last.status = "updated"
             => \E i \in ClosestOf(last.embedding, last.before.data) :
                    last.before.data[i].label # last.label

\* a correction answered 'updated' on a store where the exemplar closest to
\* it is not the first one within the cutoff
C5_Witness ==
    /\ CorrectionNearExemplar
    /\ last.status = "updated"
    /\ Cardinality(DuplicatesOf(last.embedding, last.before.data)) = 2
    /\ Cardinality(ClosestOf(last.embedding, last.before.data)) = 1
    /\ \E i \in ClosestOf(last.embedding, last.before.data) :
           /\ i = 2
           /\ last.before.data[i].label # last.label

C9_CorruptStoreDecisionFails ==
    (/\ last.op = "predict"
     /\ last.before.kind \in {"partial", "garbage", "nonlist", "badrecs"})
    => last.out.outcome = "error"

(***************************************************************************)
(* Properties of corrections running concurrently.                         *)
(***************************************************************************)
\* the store holds an exemplar with the embedding and label of p's request
HoldsRequestOf(p) ==
    \E i \in 1..Len(file.data) :
        /\ file.data[i].embedding = req[p].embedding
        /\ file.data[i].label = req[p].label

\* C6: when two concurrent corrections have both completed, the store
\* reflects both: the exemplar each of them reported as added is in it.
C6_NoLostCorrection ==
    (/\ \A p \in Procs : pc[p] = "done" /\ res[p] = "added"
     /\ file.kind = "list")
    => \A p \in Procs : HoldsRequestOf(p)

\* C7: a decision request never loads a store a correction has opened for
\* writing and not yet written.
C7_NoPartialStoreObserved ==
    last.op = "predict" => ~(last.before.kind = "partial" /\ last.before.by \in Procs)

\* C8: a correction whose write failed leaves no partial contents behind:
\* the file is not the truncated file that correction opened.
C8_FailedWriteLeavesPriorState ==
    \A p \in Procs :
        pc[p] = "done" /\ res[p] = "exception"
        => ~(file.kind = "partial" /\ file.by = p)

(***************************************************************************)
(* Corrections with any label the command line can carry.                  *)
(***************************************************************************)
\* sys.argv[2] as given: main takes it as it is, the empty string included
ArgLabels == {"", "Beagle"}

LabelNext ==
    \/ \E e \in ConcEmbs, l \in ArgLabels : Learn(e, l)
    \/ \E e \in ConcEmbs, l \in ConcLabels, c \in Confs : Predict(e, l, c)

LabelSpec == Init /\ [][LabelNext]_vars

\* C11: a correction with an empty label is rejected with an error and
\* leaves the file as it was, so that no store holds an exemplar with an
\* empty label.
C11_EmptyLabelRejected ==
    /\ last.op = "learn" /\ last.label = ""
          => last.status = "exception" /\ file = last.before
    /\ file.kind = "list"
          => \A i \in 1..Len(file.data) : file.data[i].label # ""

(***************************************************************************)
(* Properties of the store file being absent or empty.                     *)
(***************************************************************************)
EmptyOrAbsent(f) == f.kind = "absent" \/ (f.kind = "list" /\ f.data = <<>>)

\* C12: an absent file behaves as an empty store and is no error.  On
\* either, a decision request returns the classifier's label and confidence
\* with memory not used, and a correction is answered 'added' and leaves the
\* store holding the one new exemplar.
C12_AbsentAsEmpty ==
    /\ last.op = "predict" /\ EmptyOrAbsent(last.before)
          => /\ last.out.outcome = "result"
             /\ last.out.breed = last.label
             /\ last.out.confidence = last.conf
             /\ ~last.out.is_memory_match
             /\ ~last.out.memory_info.memory_used
             /\ ~last.out.memory_info.error
    /\ last.op = "learn" /\ EmptyOrAbsent(last.before)
          => /\ last.status = "added"
             /\ file = FileOf("list",
                              <<[label |-> last.label, embedding |-> last.embedding,
                                 added_at |-> clock - 1, updated_at |-> 0]>>,
                              "none")

\* a correction that was served with no file there
C12_Witness ==
    /\ last.op = "learn"
    /\ last.before.kind = "absent"
    /\ last.status = "added"
    /\ file.kind = "list"
    /\ Len(file.data) = 1

(***************************************************************************)
(* The confidence estimator on its own: calculate_memory_confidence called *)
(* with the statistics of one label.                                       *)
(***************************************************************************)
\* the values the statistics of a label are drawn from
EstDists == {50, 300, 800, 1500, 2500, 3500, 4200, 4999, 5000, 8000, 12000, 20000}
EstCosines == {7000, 9300, 9900}
EstCombined == {7000, 8500, 9200}
EstCounts == {1, 2, 3, 4, 5}
EstStds == {0, 4000, 6000}

\* statistics analyze_memory_matches can produce: of one example, the
\* combined score is that example's and the deviation is 0 (line 282); of
\* several, the best combined score is at most that of the least distance
\* with the best cosine, and above the cosine share of the best cosine
StatsOfOne(breed, d, c) ==
    StatsFromLists(breed, <<d>>, <<c>>, <<CombinedOf(d, c).combined_score>>)

StatsOfSeveral(breed, n, d, c, m, sd) ==
    [breed |-> breed, num_examples |-> n,
     avg_euclidean |-> d + sd, min_euclidean |-> d, std_euclidean |-> sd,
     avg_cosine |-> c, max_cosine |-> c,
     avg_combined_score |-> m, max_combined_score |-> m]

LabelStatistics(breed) ==
    {StatsOfOne(breed, d, c) : d \in EstDists, c \in EstCosines}
    \cup {StatsOfSeveral(breed, n, x[1], x[2], x[3], sd) :
              n \in EstCounts \ {1}, sd \in EstStds,
              x \in {y \in EstDists \X EstCosines \X EstCombined :
                        /\ y[3] <= CombinedOf(y[1], y[2]).combined_score
                        /\ y[3] * 10 > y[2] * 6}}

\* one call of calculate_memory_confidence(breed_stats, breed_name), with
\* breed_stats holding the statistics of one label; base_conf is the local
\* of that name for these statistics
Estimate(stats, breed_name) ==
    /\ last' = [op |-> "estimate", embedding |-> <<>>, label |-> breed_name,
                conf |-> 0, before |-> file, status |-> "result",
                out |-> [stats |-> stats,
                         base_conf |-> BaseConf(stats.min_euclidean, stats.max_cosine,
                                                stats.max_combined_score),
                         confidence |-> calculate_memory_confidence(<<stats>>, breed_name)]]
    /\ UNCHANGED <<file, clock, started, pc, req, ans, plan, res>>

EstimateNext ==
    \E stats \in LabelStatistics("Beagle"), breed_name \in {"Beagle", "Boxer"} :
        Estimate(stats, breed_name)

\* no request has been served and there is no file
EstimateInit == Init /\ file.kind = "absent"

EstimateSpec == EstimateInit /\ [][EstimateNext]_vars

\* the last call estimated the confidence of a label that has statistics
Estimated == last.op = "estimate" /\ last.label = last.out.stats.breed

\* C13: for the statistics of a label the estimator returns a confidence in
\* [0.55, 1.00], whatever the example-count boost and the variance penalty.
C13_ConfidenceInRange ==
    Estimated => last.out.confidence >= 5500 /\ last.out.confidence <= 10000

\* an estimate whose base and boost add up to more than 1.00
C13_Witness ==
    /\ Estimated
    /\ last.out.stats.num_examples = 5
    /\ last.out.stats.min_euclidean = 2500
    /\ last.out.confidence = 10000

\* statistics that differ from those of the last call in the least distance
\* only: example count, best cosine, best combined score and deviation are
\* the same
SameButDistance(stats) ==
    /\ stats.num_examples = last.out.stats.num_examples
    /\ stats.max_cosine = last.out.stats.max_cosine
    /\ stats.max_combined_score = last.out.stats.max_combined_score
    /\ stats.std_euclidean = last.out.stats.std_euclidean

\* two least distances of the same tier: both below the exact-duplicate
\* cutoff, or both at or above it
SameTier(d1, d2) ==
    (d1 < EXACT_DUPLICATE_THRESHOLD) = (d2 < EXACT_DUPLICATE_THRESHOLD)

\* C14: with example count, best cosine, best combined score and deviation
\* fixed, the estimate does not increase with the least distance within a
\* tier: a larger least distance of the same tier never has a higher
\* confidence.
C14_MonotoneInDistance ==
    Estimated
    => \A stats \in LabelStatistics(last.label) :
           (/\ SameButDistance(stats)
            /\ SameTier(last.out.stats.min_euclidean, stats.min_euclidean)
            /\ last.out.stats.min_euclidean <= stats.min_euclidean)
           => ConfidenceOf(stats) <= last.out.confidence

\* C15: below the exact-duplicate cutoff neither boost nor penalty applies:
\* the estimate is the same for every example count and deviation with that
\* least distance.
C15_DuplicateTierUnboosted ==
    Estimated /\ last.out.stats.min_euclidean < EXACT_DUPLICATE_THRESHOLD
    => \A stats \in LabelStatistics(last.label) :
           stats.min_euclidean = last.out.stats.min_euclidean
           => ConfidenceOf(stats) = last.out.confidence

\* C16: below the exact-duplicate cutoff the base confidence lies in
\* [0.96, 1.00]: from 3.5 on it is interpolated down to 0.96 at the cutoff.
C16_DuplicateBaseAtLeast96 ==
    Estimated /\ last.out.stats.min_euclidean < EXACT_DUPLICATE_THRESHOLD
    => last.out.base_conf >= 9600 /\ last.out.base_conf <= 10000

(***************************************************************************)
(* The decision on its own: make_weighted_decision called with the         *)
(* classifier's output and the statistics of one or two labels.            *)
(***************************************************************************)
ModelBreeds == {"Golden Retriever", "Labrador Retriever", "Husky", "Samoyed"}
MemoryBreeds == {"Labrador Retriever", "Samoyed"}
\* the classifier's confidence: 0.40, 0.70, 0.82, 0.85, 0.90, 0.93
ModelConfs == {4000, 7000, 8200, 8500, 9000, 9300}

\* the statistics of a second label: one example, an exact duplicate or a
\* near-identical direction
OtherStatistics(breed) == {StatsOfOne(breed, 3000, 9300), StatsOfOne(breed, 9000, 9900)}

OtherBreed(breed) ==
    IF breed = "Labrador Retriever" THEN "Samoyed" ELSE "Labrador Retriever"

\* breed_stats in key order
BreedStatsWith(st) ==
    {<<st>>}
    \cup {<<st, o>> : o \in OtherStatistics(OtherBreed(st.breed))}
    \cup {<<o, st>> : o \in OtherStatistics(OtherBreed(st.breed))}

BreedStatsInputs ==
    UNION {BreedStatsWith(st) : st \in UNION {LabelStatistics(b) : b \in MemoryBreeds}}

\* a call of make_weighted_decision is about to be made with these arguments
DecideInit ==
    /\ file = FileOf("absent", <<>>, "none")
    /\ clock = 1
    /\ last \in {[op |-> "asked", embedding |-> <<>>, label |-> model_breed,
                  conf |-> model_conf, before |-> file, status |-> "none",
                  out |-> [breed_stats |-> breed_stats]] :
                    model_breed \in ModelBreeds, model_conf \in ModelConfs,
                    breed_stats \in BreedStatsInputs}
    /\ started = 0
    /\ pc = [p \in Procs |-> "idle"]
    /\ req = [p \in Procs |-> NoRequest]
    /\ ans = [p \in Procs |-> NoAnswer]
    /\ plan = [p \in Procs |-> NoPlan]
    /\ res = [p \in Procs |-> "none"]

\* memory_candidates[0], when there is a candidate
BestOrNone(memory_candidates) ==
    IF memory_candidates = <<>> THEN [breed |-> "None", score |-> 0, confidence |-> 0]
    ELSE BestMemory(memory_candidates)

\* the call: best_memory is the local of that name, line 471
DecideCall(model_breed, model_conf, breed_stats) ==
    /\ last' = [op |-> "decide", embedding |-> <<>>, label |-> model_breed,
                conf |-> model_conf, before |-> file, status |-> "result",
                out |-> [breed_stats |-> breed_stats,
                         best_memory |-> BestOrNone(MemoryCandidates(breed_stats)),
                         decision |-> make_weighted_decision(model_breed, model_conf,
                                                             breed_stats)]]
    /\ UNCHANGED <<file, clock, started, pc, req, ans, plan, res>>

Decide ==
    /\ last.op = "asked"
    /\ DecideCall(last.label, last.conf, last.out.breed_stats)

DecideSpec == DecideInit /\ [][Decide]_vars

\* the last call was a decision among memory candidates none of which is
\* an exact duplicate
DecidedWithoutDuplicate ==
    /\ last.op = "decide"
    /\ last.out.best_memory.breed # "None"
    /\ \A k \in 1..Len(last.out.breed_stats) :
           last.out.breed_stats[k].min_euclidean >= EXACT_DUPLICATE_THRESHOLD

\* classifier and best memory candidate name different labels
Disagreement == DecidedWithoutDuplicate /\ last.label # last.out.best_memory.breed

\* the classifier's label wins with the classifier's confidence
ClassifierWins ==
    /\ last.out.decision.breed = last.label
    /\ last.out.decision.conf = last.conf
    /\ ~last.out.decision.memory_used

\* the best memory candidate wins with its estimated confidence
MemoryWins ==
    /\ last.out.decision.breed = last.out.best_memory.breed
    /\ last.out.decision.conf = last.out.best_memory.confidence
    /\ last.out.decision.memory_used

\* C17: in a disagreement with no exact duplicate, a classifier confidence
\* above 0.90 with a best memory score below 92 makes the classifier's label
\* win with the classifier's confidence, memory not used, rationale
\* model-override; for confusable and other pairs of labels alike.
C17_HighConfidenceOverride ==
    Disagreement /\ last.conf > 9000 /\ last.out.best_memory.score < 9200
    => /\ ClassifierWins
       /\ last.out.decision.decision = "model_very_high_confidence_override"

\* the scenario: classifier Husky 0.93, four Samoyed exemplars with least
\* distance 8.0 (memory score 85), decided for Husky by the override
C17_Witness ==
    /\ Disagreement
    /\ last.label = "Husky" /\ last.conf = 9300
    /\ Len(last.out.breed_stats) = 1
    /\ last.out.breed_stats[1].breed = "Samoyed"
    /\ last.out.breed_stats[1].num_examples = 4
    /\ last.out.breed_stats[1].min_euclidean = 8000
    /\ last.out.best_memory.score = 8500
    /\ last.out.decision.breed = "Husky"
    /\ last.out.decision.decision = "model_very_high_confidence_override"

\* C18: with no exact duplicate and the classifier's label that of the best
\* memory candidate, the decision is that label with confidence
\* min(0.98, max(classifier confidence, memory confidence) + boost), boost
\* 0.08 for a memory score above 85 and 0.05 otherwise, agreement true,
\* rationale agreement-boost.
C18_AgreementBoost ==
    DecidedWithoutDuplicate /\ last.label = last.out.best_memory.breed
    => /\ last.out.decision.breed = last.label
       /\ last.out.decision.conf
             = Min2(9800, Max2(last.conf, last.out.best_memory.confidence)
                          + (IF last.out.best_memory.score > 8500 THEN 800 ELSE 500))
       /\ last.out.decision.agreement = "true"
       /\ last.out.decision.memory_used
       /\ last.out.decision.decision = "agreement_confidence_boost"

\* an agreement on a memory score above 85 whose boosted confidence stays
\* below 0.98
C18_Witness ==
    /\ DecidedWithoutDuplicate
    /\ last.label = last.out.best_memory.breed
    /\ last.out.best_memory.score > 8500
    /\ last.out.decision.conf = Max2(last.conf, last.out.best_memory.confidence) + 800
    /\ last.out.decision.conf < 9800

\* the margin between the scores of a disagreement: 20 for confusable
\* labels, 15 otherwise
MarginOfLast ==
    IF is_visually_similar_breed(last.label, last.out.best_memory.breed)
    THEN 2000 ELSE 1500

\* C19: in a disagreement settled neither by the exact-duplicate rule nor by
\* the high-confidence override, the memory label wins whenever the memory
\* score exceeds the classifier score (confidence * 100) by more than the
\* margin, and the classifier label wins whenever the classifier score
\* exceeds the memory score by more than the margin.
C19_ScoreMargins ==
    Disagreement /\ ~(last.conf > 9000 /\ last.out.best_memory.score < 9200)
    => /\ last.out.best_memory.score > last.conf + MarginOfLast => MemoryWins
       /\ last.conf > last.out.best_memory.score + MarginOfLast => ClassifierWins

\* a memory label that wins by a score more than 15 and at most 20 above the
\* classifier's, the labels not being confusable
C19_Witness ==
    /\ Disagreement
    /\ MarginOfLast = 1500
    /\ last.out.best_memory.score > last.conf + 1500
    /\ last.out.best_memory.score <= last.conf + 2000
    /\ last.out.best_memory.confidence <= last.conf
    /\ MemoryWins

\* C20: in a disagreement where the two scores are within the margin of
\* each other, the side with the strictly higher confidence wins, and the
\* classifier wins when the confidences are equal.
C20_CloseScoresByConfidence ==
    (/\ Disagreement
     /\ last.out.best_memory.score <= last.conf + MarginOfLast
     /\ last.conf <= last.out.best_memory.score + MarginOfLast)
    => IF last.out.best_memory.confidence > last.conf THEN MemoryWins
                                                      ELSE ClassifierWins

\* scores within the margin and equal confidences, decided for the classifier
C20_Witness ==
    /\ Disagreement
    /\ last.out.best_memory.score <= last.conf + MarginOfLast
    /\ last.conf <= last.out.best_memory.score + MarginOfLast
    /\ last.out.best_memory.confidence = last.conf
    /\ ClassifierWins

(***************************************************************************)
(* What a query reports: predict.py 536-614 and 664-711.                   *)
(***************************************************************************)
\* C21: every decision returned for a query, whatever the branch (no memory
\* match, missing, empty or unreadable store included), carries a rationale
\* tag (memory_info's decision) and a populated agreement value.
C21_EveryDecisionAuditable ==
    last.op = "predict" =>
        /\ last.out.memory_info.decision # "unset"
        /\ last.out.memory_info.agreement # "unset"

\* C29: the reported result agrees with memory_used: when it is true the
\* reported breed and confidence are the decision's final label and
\* confidence and is_memory_match is true; when it is false they are the
\* classifier's top label and confidence and is_memory_match is false.
C29_ResultConsistentWithMemoryUsed ==
    last.op = "predict" =>
        IF last.out.memory_info.memory_used
        THEN /\ last.out.is_memory_match
             /\ last.out.breed = last.out.memory_info.final_breed
             /\ last.out.confidence = last.out.memory_info.final_confidence
        ELSE /\ ~last.out.is_memory_match
             /\ last.out.breed = last.label
             /\ last.out.confidence = last.conf

(***************************************************************************)
(* Queries against stores whose exemplars lie far from the query: main of  *)
(* predict.py called once on a store that corrections have left.           *)
(***************************************************************************)
\* the embeddings of the queries and of the exemplars; the exemplars are
\* pairwise 12 or more apart
QueryEmbs == {<<32, 0>>, <<19, 24>>, <<3, 0>>}
StoreEmbs == {<<0, 32>>, <<1, 0>>, <<30, 0>>, <<0, 20>>}
QueryLabels == {"Beagle", "Labrador Retriever"}

\* the exemplar the i-th correction of a run appended
ExemplarOf(embedding, label, i) ==
    [label |-> label, embedding |-> embedding, added_at |-> i, updated_at |-> 0]

\* the stores of one, two or three exemplars with different embeddings
StoresOfOne == {<<ExemplarOf(e, l, 1)>> : e \in StoreEmbs, l \in QueryLabels}
StoresOneMore(stores, i) ==
    UNION {{Append(d, ExemplarOf(e, l, i)) :
               e \in StoreEmbs \ {d[k].embedding : k \in 1..Len(d)}, l \in QueryLabels} :
           d \in stores}
QueryStores ==
    StoresOfOne \cup StoresOneMore(StoresOfOne, 2)
                \cup StoresOneMore(StoresOneMore(StoresOfOne, 2), 3)

\* a query is about to be served on a store
QueryInit ==
    /\ file \in {FileOf("list", d, "none") : d \in QueryStores}
    /\ clock = 1
    /\ last \in {[op |-> "asked", embedding |-> e, label |-> l, conf |-> c,
                  before |-> file, status |-> "none", out |-> NoAnswer] :
                    e \in QueryEmbs, l \in QueryLabels, c \in Confs}
    /\ started = 0
    /\ pc = [p \in Procs |-> "idle"]
    /\ req = [p \in Procs |-> NoRequest]
    /\ ans = [p \in Procs |-> NoAnswer]
    /\ plan = [p \in Procs |-> NoPlan]
    /\ res = [p \in Procs |-> "none"]

Query ==
    /\ last.op = "asked"
    /\ Predict(last.embedding, last.label, last.conf)

QuerySpec == QueryInit /\ [][Query]_vars

\* the weak-similarity gate for one exemplar: euclidean <= 30 or cosine >= 0.75
PassesGate(embedding, ref) ==
    \/ euclidean_distance(embedding, ref.embedding) <= WEAK_SIMILARITY_THRESHOLD
    \/ cosine_similarity(embedding, ref.embedding) >= COSINE_WEAK_THRESHOLD

\* the last request was a query on a store none of whose exemplars, hence
\* none of whose labels, passes the gate
QueriedWithoutMatch ==
    /\ last.op = "predict"
    /\ last.before.kind = "list"
    /\ last.before.data # <<>>
    /\ \A i \in 1..Len(last.before.data) :
           ~PassesGate(last.embedding, last.before.data[i])

\* C22: when no label of the store passes the weak-similarity gate for the
\* query, the decision is the classifier's top label with the classifier's
\* confidence, memory_used false and the rationale no_memory_matches, and
\* no error is raised.
C22_NoMemoryMatchIsClassifier ==
    QueriedWithoutMatch =>
        /\ last.out.outcome = "result"
        /\ last.out.breed = last.label
        /\ last.out.confidence = last.conf
        /\ ~last.out.is_memory_match
        /\ ~last.out.memory_info.memory_used
        /\ last.out.memory_info.decision = "no_memory_matches"
        /\ ~last.out.memory_info.error

\* a query on a store of two exemplars of different labels, both failing
\* the gate, was answered with the classifier's label
C22_Witness ==
    /\ QueriedWithoutMatch
    /\ Len(last.before.data) = 2
    /\ last.before.data[1].label # last.before.data[2].label
    /\ last.out.memory_info.decision = "no_memory_matches"
    /\ last.out.breed = last.label

\* the exemplars of a store that pass the gate for a query
PassingGate(embedding, data) ==
    SelectSeq(data, LAMBDA ref : PassesGate(embedding, ref))

\* C23: the statistics of a label used for a decision aggregate only over the
\* exemplars of that label that pass the weak-similarity gate: for every
\* label the decision considers, the statistics are the ones computed from
\* the store without the exemplars that fail the gate (same example count,
\* same best, mean and std distance, same cosines and combined scores).
C23_StatisticsOverPassingExemplars ==
    (last.op = "predict" /\ last.before.kind = "list") =>
        \A st \in SeqRange(SelectSeq(analyze_memory_matches(last.embedding,
                                                            last.before.data),
                                     ReasonablySimilar)) :
            <<st>> = StatsGet(analyze_memory_matches(
                                  last.embedding,
                                  PassingGate(last.embedding, last.before.data)),
                              st.breed)

(***************************************************************************)
(* Corrections whose embeddings differ in length: learn.py's main served   *)
(* one request at a time.                                                  *)
(***************************************************************************)
DimEmbs == {<<6, 0>>, <<20, 0>>, <<8>>, <<6, 0, 0>>}

DimNext == \E e \in DimEmbs, l \in ConcLabels : Learn(e, l)

DimSpec == Init /\ [][DimNext]_vars

\* C24: all exemplars of the store have the same embedding dimensionality,
\* the one of the first exemplar inserted, and a correction whose embedding
\* has another dimensionality is rejected with an error and leaves the store
\* unchanged.
C24_OneDimensionality ==
    /\ file.kind = "list" =>
           \A i \in 1..Len(file.data) :
               Len(file.data[i].embedding) = Len(file.data[1].embedding)
    /\ ( /\ last.op = "learn"
         /\ last.before.kind = "list"
         /\ last.before.data # <<>>
         /\ Len(last.embedding) # Len(last.before.data[1].embedding) )
       => (last.status = "exception" /\ file = last.before)

(***************************************************************************)
(* What a correction served on its own leaves of the store.                *)
(***************************************************************************)
\* the exemplars of a file, none when there is no file
ExemplarsOf(f) == IF f.kind = "list" THEN f.data ELSE <<>>

\* the positions at which two stores of the same size differ
ChangedPositions(old, new) == {i \in 1..Len(old) : new[i] # old[i]}

\* the existing exemplars after the last correction: an update keeps size,
\* order, embeddings and insertion times and touches one exemplar; an add
\* keeps every exemplar and appends one with the request's embedding and label
ExistingExemplarsPreserved ==
    /\ last.status = "skipped" => file = last.before
    /\ last.status = "updated" =>
           /\ file.kind = "list"
           /\ Len(file.data) = Len(ExemplarsOf(last.before))
           /\ \A i \in 1..Len(file.data) :
                  /\ file.data[i].embedding = last.before.data[i].embedding
                  /\ file.data[i].added_at = last.before.data[i].added_at
           /\ Cardinality(ChangedPositions(last.before.data, file.data)) = 1
    /\ last.status = "added" =>
           /\ file.kind = "list"
           /\ Len(file.data) = Len(ExemplarsOf(last.before)) + 1
           /\ SubSeq(file.data, 1, Len(file.data) - 1) = ExemplarsOf(last.before)
           /\ file.data[Len(file.data)].embedding = last.embedding
           /\ file.data[Len(file.data)].label = last.label
    /\ Len(ExemplarsOf(file)) >= Len(ExemplarsOf(last.before))

\* C25: every correction served on its own preserves the existing exemplars:
\* 'skipped' leaves the store unchanged; 'updated' leaves size, order and
\* embeddings unchanged and changes the label and updated_at of exactly one
\* exemplar; 'added' leaves the existing exemplars and their order unchanged
\* and appends exactly one exemplar; the size of the store never decreases.
C25_CorrectionPreservesExemplars ==
    last.op = "learn" =>
        /\ ExistingExemplarsPreserved
        /\ last.status = "updated" =>
               \A i \in ChangedPositions(last.before.data, file.data) :
                   /\ file.data[i].label # last.before.data[i].label
                   /\ file.data[i].updated_at # last.before.data[i].updated_at

\* the part of C25 that does not depend on which exemplar an update reaches
FrameOfLastCorrection == last.op = "learn" => ExistingExemplarsPreserved

\* C26: from an empty (or missing) store, after any sequence of corrections
\* served one at a time no two exemplars of the store are at a Euclidean
\* distance below the duplicate cutoff, 5.0, from each other.
C26_NoTwoExemplarsWithinCutoff ==
    file.kind = "list" =>
        \A i \in 1..Len(file.data) : \A j \in 1..Len(file.data) :
            i # j => euclidean_distance(file.data[i].embedding, file.data[j].embedding)
                        >= DUPLICATE_THRESHOLD

\* a store of two exemplars or more has just refused to take in an image
\* within the cutoff of one of them: the correction was a skip or an update
C26_Witness ==
    /\ file.kind = "list"
    /\ Len(file.data) >= 2
    /\ last.op = "learn"
    /\ last.status \in {"skipped", "updated"}
    /\ \E i \in 1..Len(file.data) :
           euclidean_distance(last.embedding, file.data[i].embedding)
              < DUPLICATE_THRESHOLD

(***************************************************************************)
(* What concurrent corrections decide on and what they write.              *)
(***************************************************************************)
\* C27: in every interleaving of concurrent corrections a correction decides
\* on the contents it then modifies and writes back: it never appends an
\* exemplar to contents that already hold an exemplar within the duplicate
\* cutoff of it, and an 'update' outcome never ends in 'Update failed'.
C27_DecidesOnWhatItWrites ==
    \A p \in Procs :
        /\ (pc[p] \in {"open", "dump"} /\ plan[p].status = "added"
                                       /\ plan[p].kind = "list") =>
               \A i \in 1..(Len(plan[p].data) - 1) :
                   euclidean_distance(req[p].embedding, plan[p].data[i].embedding)
                      >= DUPLICATE_THRESHOLD
        /\ res[p] # "update_failed"

(***************************************************************************)
(* The confidence of an agreement: predict.py 483-491.                     *)
(***************************************************************************)
\* C28: in the agreement branch the final confidence is never lower than the
\* classifier's confidence nor lower than the memory's estimated confidence.
C28_AgreementNeverLowersConfidence ==
    (last.op = "decide" /\ last.out.decision.decision = "agreement_confidence_boost")
    => /\ last.out.decision.conf >= last.conf
       /\ last.out.decision.conf >= last.out.best_memory.confidence

=============================================================================
